---- MODULE Spec2Model ----
(***************************************************************************)
(* A model of the WebRTC signaling server (src/unnamed/part_000, the       *)
(* version of src/index.js that reads its limits from src/config.js).      *)
(*                                                                         *)
(* The server is single threaded: every 'connection', 'message' and        *)
(* 'close' event is handled to completion before the next one, so each     *)
(* handler is one atomic action.  The state is the two maps `peers` and    *)
(* `lobbies`; what a handler hands to the transport (ws.send, ws.close) is *)
(* recorded in `sent` and `closed` for the step that did it, and `ev`      *)
(* names the event that step handled; `announced` remembers, for every     *)
(* registered peer whose PEER_CONNECT was handled, the name it submitted   *)
(* last.  An exception that leaves a handler                               *)
(* is not caught anywhere (no try/catch, no 'uncaughtException' handler),  *)
(* so it ends the process: `crashed`.                                      *)
(*                                                                         *)
(* `introduced` and `announcedAt` are the history of SpecIntro, in which   *)
(* every peer announces itself once: introduced[<<R, S>>] counts the       *)
(* PEER_CONNECT packets with peer_index S handed to R, and announcedAt[F]  *)
(* is the number of connections the server had received when F announced.  *)
(* The other specifications keep no such history.                          *)
(***************************************************************************)
EXTENDS Integers, Sequences, FiniteSets, TLC

VARIABLES peers, lobbies, nextConn, announced, crashed, ev, sent, closed,
          introduced, announcedAt

vars == <<peers, lobbies, nextConn, announced, crashed, ev, sent, closed,
          introduced, announcedAt>>

(***************************************************************************)
(* Bounds of the model.  MAX_PEERS and MAX_LOBBY_SIZE are the ceilings of  *)
(* src/config.js (4096 and 10 there), scaled down so that both ceilings    *)
(* are reached.  MaxConns is the number of connections the server accepts *)
(* in one run of Spec; the specifications that draw many different        *)
(* messages accept fewer (MaxConnsRelay, MaxConnsNames, MaxConnsInvalid), *)
(* NumCodes is the number of codes createLobby draws from,                *)
(* NamesLobbySize is the lobby ceiling under which names and introductions *)
(* are studied, and MaxConnsIntro is the number of peers that join and     *)
(* announce themselves in SpecIntro.                                       *)
(***************************************************************************)
MAX_PEERS == 3

MAX_LOBBY_SIZE == 2

MaxConns == 4

MaxConnsRelay == 3

MaxConnsNames == 3

MaxConnsInvalid == 2

NamesLobbySize == 3

MaxConnsIntro == 3

\* Config, as src/config.js exports it, and the configuration of SpecNames,
\* whose lobbies hold one member more.
Config == [MAX_PEERS |-> MAX_PEERS, MAX_LOBBY_SIZE |-> MAX_LOBBY_SIZE]

NamesConfig == [MAX_PEERS |-> MAX_PEERS, MAX_LOBBY_SIZE |-> NamesLobbySize]

(***************************************************************************)
(* Program constants.                                                      *)
(***************************************************************************)
SET_ID == 0

PEER_CONNECT == 1

PEER_DISCONNECT == 2

OFFER == 3

ANSWER == 4

CANDIDATE == 5

MESSAGE_TYPE == {SET_ID, PEER_CONNECT, PEER_DISCONNECT, OFFER, ANSWER, CANDIDATE}

INVALID_PAYLOAD == 1007

TRY_AGAIN_LATER == 1013

UNAUTHORIZED == 3000

FORBIDDEN == 3003

LOBBY_ID_LENGTH == 6

LOBBY_ID_CHARS ==
    { "A","B","C","D","E","F","G","H","I","J","K","L","M",
      "N","O","P","Q","R","S","T","U","V","W","X","Y","Z",
      "a","b","c","d","e","f","g","h","i","j","k","l","m",
      "n","o","p","q","r","s","t","u","v","w","x","y","z",
      "0","1","2","3","4","5","6","7","8","9" }

(***************************************************************************)
(* JavaScript values, as far as the server meets them.  A value is a       *)
(* tagged record; an object is a function from its own keys to values.     *)
(***************************************************************************)
Undefined == [t |-> "undefined"]

Null == [t |-> "null"]

Infinity == [t |-> "infinity"]

EmptyArray == [t |-> "array"]

Num(n) == [t |-> "number", v |-> n]

Bool(b) == [t |-> "boolean", v |-> b]

Str(s) == [t |-> "string", v |-> s]

Obj(f) == [t |-> "object", f |-> f]

\* typeof v
typeof(v) ==
    CASE v.t = "undefined" -> "undefined"
      [] v.t \in {"number", "infinity"} -> "number"
      [] v.t = "string" -> "string"
      [] v.t = "boolean" -> "boolean"
      [] OTHER -> "object"

\* key in v, for v an object or an array (the arrays of the model are empty)
HasKey(v, key) == v.t = "object" /\ key \in DOMAIN v.f

\* v[key]
Get(v, key) == IF HasKey(v, key) THEN v.f[key] ELSE Undefined

\* String(v), as a template literal converts v
ToStringJS(v) ==
    CASE v.t = "string" -> v.v
      [] v.t = "number" -> ToString(v.v)
      [] v.t = "infinity" -> "Infinity"
      [] v.t = "null" -> "null"
      [] v.t = "undefined" -> "undefined"
      [] v.t = "array" -> ""
      [] v.t = "boolean" -> IF v.v THEN "true" ELSE "false"
      [] OTHER -> "[object Object]"

(***************************************************************************)
(* JSON text.  A text is kept as its syntax tree with the numbers as they  *)
(* are written: white space and the order of an object's keys are not      *)
(* modelled, number lexemes are.  "garbage" is a text that is not JSON.    *)
(***************************************************************************)
RawGarbage == [r |-> "garbage"]

RawNull == [r |-> "null"]

RawArray == [r |-> "array"]

RawNum(lex) == [r |-> "number", lex |-> lex]

RawStr(s) == [r |-> "string", s |-> s]

RawBool(b) == [r |-> "boolean", b |-> b]

RawObj(m) == [r |-> "object", m |-> m]

\* The number a JSON number lexeme denotes as a double.
ParseNumber(lex) ==
    CASE lex = "0" -> Num(0)
      [] lex = "1" -> Num(1)
      [] lex = "2" -> Num(2)
      [] lex = "3" -> Num(3)
      [] lex = "4" -> Num(4)
      [] lex = "5" -> Num(5)
      [] lex = "6" -> Num(6)
      [] lex = "3.0" -> Num(3)
      [] lex = "1e400" -> Infinity

RECURSIVE JSONparse(_)
\* JSON.parse(text), for a text that is JSON
JSONparse(raw) ==
    CASE raw.r = "null" -> Null
      [] raw.r = "array" -> EmptyArray
      [] raw.r = "number" -> ParseNumber(raw.lex)
      [] raw.r = "string" -> Str(raw.s)
      [] raw.r = "boolean" -> Bool(raw.b)
      [] raw.r = "object" -> Obj([k \in DOMAIN raw.m |-> JSONparse(raw.m[k])])

\* JSON.parse throws a SyntaxError on a text that is not JSON
ParseThrows(raw) == raw.r = "garbage"

RECURSIVE JSONstringify(_)
\* JSON.stringify(v): a key whose value is undefined is left out, a number that
\* is not finite is written null
JSONstringify(v) ==
    CASE v.t = "null" -> RawNull
      [] v.t = "infinity" -> RawNull
      [] v.t = "array" -> RawArray
      [] v.t = "number" -> RawNum(ToString(v.v))
      [] v.t = "string" -> RawStr(v.v)
      [] v.t = "boolean" -> RawBool(v.v)
      [] v.t = "object" ->
            RawObj([k \in {x \in DOMAIN v.f : v.f[x].t # "undefined"}
                        |-> JSONstringify(v.f[k])])

(***************************************************************************)
(* The maps.  peers: id -> [name, isHost, lobbyId]; a lobby id is the      *)
(* sequence of its characters, '' is <<>>.  lobbies: lobby id -> the ids   *)
(* of lobby.peers in insertion order (a Map iterates in insertion order).  *)
(* The ws handle of a peer is its id in `sent` and `closed`.               *)
(***************************************************************************)
MapSet(m, k, v) == [x \in DOMAIN m \cup {k} |-> IF x = k THEN v ELSE m[x]]

MapDelete(m, k) == [x \in DOMAIN m \ {k} |-> m[x]]

Remove(seq, x) == SelectSeq(seq, LAMBDA y : y # x)

RECURSIVE Join(_)
\* the string a sequence of characters spells
Join(chars) == IF chars = <<>> THEN "" ELSE Head(chars) \o Join(Tail(chars))

\* sendPeerMessage forwarding the peer_index the client submitted (the
\* destination) instead of the sender's id.
sendPeerMessage_ClientIndex(out, peer, type, fromId, data) ==
    Append(out, [to |-> peer,
                 packet |-> JSONstringify(Obj([type |-> type,
                                               peer_index |-> Str(peer),
                                               data |-> data]))])

\* sendPeerMessage(peer, type, fromId, data): one more packet handed to peer.ws
sendPeerMessage(out, peer, type, fromId, data) ==
    Append(out, [to |-> peer,
                 packet |-> JSONstringify(Obj([type |-> type,
                                               peer_index |-> Str(fromId),
                                               data |-> data]))])

\* connectPeer making the first peer of an empty registry the host, as
\* src/index.js does.
connectPeer_FirstIsHost(P, id) ==
    MapSet(P, id, [name |-> Str("Player"), isHost |-> (DOMAIN P = {}), lobbyId |-> <<>>])

\* connectPeer(ws): the new entry of peers; the caller draws the fresh UUID
connectPeer(P, id) ==
    MapSet(P, id, [name |-> Str("Player"), isHost |-> FALSE, lobbyId |-> <<>>])

validateLobbyId(L, lobbyId) ==
    /\ Len(lobbyId) = LOBBY_ID_LENGTH
    /\ \A i \in 1..Len(lobbyId) : lobbyId[i] \in LOBBY_ID_CHARS
    /\ lobbyId \in DOMAIN L

\* leaveLobby leaving an empty lobby in the map.
leaveLobby_KeepEmpty(L, peer, id) ==
    IF peer.lobbyId # <<>> /\ peer.lobbyId \in DOMAIN L
    THEN [L EXCEPT ![peer.lobbyId] = Remove(@, id)]
    ELSE L

\* The do-while loop of createLobby: `draws` are the codes the successive
\* rounds of random draws spell, the first that is in no lobby is taken.
Rolled(L, draws) == draws[CHOOSE i \in 1..Len(draws) :
                              /\ draws[i] \notin DOMAIN L
                              /\ \A j \in 1..(i - 1) : draws[j] \in DOMAIN L]

\* createLobby taking the first code drawn.
createLobby_NoReroll(L, draws) ==
    [lobbies |-> MapSet(L, Head(draws), <<>>), lobbyId |-> Head(draws)]

\* createLobby(): [lobbies, lobbyId]
createLobby(L, draws) ==
    [lobbies |-> MapSet(L, Rolled(L, draws), <<>>), lobbyId |-> Rolled(L, draws)]

\* The peer's lobby reference as joinLobby leaves it on its way to the
\* capacity check.
SetLobbyRef(peer, lobbyId) == [peer EXCEPT !.lobbyId = lobbyId]

\* joinLobby taking the requested code as the peer's lobby reference before
\* it validates it.
joinLobby_RefFirst(P, L, id, url, draws, config) ==
    LET requested == IF Len(url) > 1 THEN Tail(url) ELSE <<>>
        P0 == [P EXCEPT ![id] = SetLobbyRef(@, requested)]
    IN  IF requested # <<>> /\ ~validateLobbyId(L, requested)
        THEN [peers |-> P0, lobbies |-> L,
              closed |-> <<[id |-> id, code |-> INVALID_PAYLOAD]>>, ret |-> <<>>]
        ELSE LET created == requested = <<>>
                 lobbyId == IF created THEN createLobby(L, draws).lobbyId ELSE requested
                 L1 == IF created THEN createLobby(L, draws).lobbies ELSE L
                 host == IF created THEN [P[id] EXCEPT !.isHost = TRUE] ELSE P[id]
                 P1 == [P EXCEPT ![id] = SetLobbyRef(host, lobbyId)]
             IN  IF Len(L1[lobbyId]) >= config.MAX_LOBBY_SIZE
                 THEN [peers |-> P1, lobbies |-> L1,
                       closed |-> <<[id |-> id, code |-> FORBIDDEN]>>, ret |-> <<>>]
                 ELSE [peers |-> P1,
                       lobbies |-> [L1 EXCEPT ![lobbyId] = Append(@, id)],
                       closed |-> <<>>, ret |-> lobbyId]

\* joinLobby(id, req): [peers, lobbies, closed, ret]; ret is <<>> for undefined
joinLobby(P, L, id, url, draws, config) ==
    LET requested == IF Len(url) > 1 THEN Tail(url) ELSE <<>>
    IN  IF requested # <<>> /\ ~validateLobbyId(L, requested)
        THEN [peers |-> P, lobbies |-> L,
              closed |-> <<[id |-> id, code |-> INVALID_PAYLOAD]>>, ret |-> <<>>]
        ELSE LET created == requested = <<>>
                 lobbyId == IF created THEN createLobby(L, draws).lobbyId ELSE requested
                 L1 == IF created THEN createLobby(L, draws).lobbies ELSE L
                 host == IF created THEN [P[id] EXCEPT !.isHost = TRUE] ELSE P[id]
                 P1 == [P EXCEPT ![id] = SetLobbyRef(host, lobbyId)]
             IN  IF Len(L1[lobbyId]) >= config.MAX_LOBBY_SIZE
                 THEN [peers |-> P1, lobbies |-> L1,
                       closed |-> <<[id |-> id, code |-> FORBIDDEN]>>, ret |-> <<>>]
                 ELSE [peers |-> P1,
                       lobbies |-> [L1 EXCEPT ![lobbyId] = Append(@, id)],
                       closed |-> <<>>, ret |-> lobbyId]

\* setPeerId(id)
setPeerId(P, id) ==
    sendPeerMessage(<<>>, id, Num(SET_ID), id,
                    Obj([lobby_id |-> Str(Join(P[id].lobbyId))]))

\* leaveLobby(peer): the lobbies map afterwards
leaveLobby(L, peer, id) ==
    IF peer.lobbyId # <<>> /\ peer.lobbyId \in DOMAIN L
    THEN LET rest == Remove(L[peer.lobbyId], id)
         IN  IF Len(rest) = 0 THEN MapDelete(L, peer.lobbyId)
             ELSE [L EXCEPT ![peer.lobbyId] = rest]
    ELSE L

RECURSIVE SendEach(_, _, _, _, _)
\* for (const peer of lobby.peers.values()) sendPeerMessage(peer, type, fromId, data)
SendEach(out, members, type, fromId, data) ==
    IF members = <<>> THEN out
    ELSE SendEach(sendPeerMessage(out, Head(members), type, fromId, data),
                  Tail(members), type, fromId, data)

\* disconnectPeer looking the lobby up before the peer has left it.
disconnectPeer_BeforeLeaving(P, L, id) ==
    IF id \notin DOMAIN P THEN [peers |-> P, lobbies |-> L, sent |-> <<>>]
    ELSE LET peer == P[id]
         IN  [peers |-> MapDelete(P, id),
              lobbies |-> leaveLobby(L, peer, id),
              sent |-> IF peer.lobbyId \in DOMAIN L
                       THEN SendEach(<<>>, L[peer.lobbyId], Num(PEER_DISCONNECT), id, Undefined)
                       ELSE <<>>]

\* disconnectPeer(id): [peers, lobbies, sent]
disconnectPeer(P, L, id) ==
    IF id \notin DOMAIN P THEN [peers |-> P, lobbies |-> L, sent |-> <<>>]
    ELSE LET peer == P[id]
             L1 == leaveLobby(L, peer, id)
         IN  [peers |-> MapDelete(P, id),
              lobbies |-> L1,
              sent |-> IF peer.lobbyId \in DOMAIN L1
                       THEN SendEach(<<>>, L1[peer.lobbyId], Num(PEER_DISCONNECT), id, Undefined)
                       ELSE <<>>]

(***************************************************************************)
(* Inbound messages.                                                       *)
(***************************************************************************)
\* validateMessage(message): "true", "false", or "throw" where the in operator
\* is applied to null (a TypeError)
validateMessage(message) ==
    IF typeof(message) # "object" THEN "false"
    ELSE IF message.t = "null" THEN "throw"
    ELSE IF ~HasKey(message, "type") THEN "false"
    ELSE IF typeof(Get(message, "type")) # "number" THEN "false"
    ELSE IF ~(Get(message, "type").t = "number" /\ Get(message, "type").v \in MESSAGE_TYPE)
         THEN "false"
    ELSE IF ~HasKey(message, "peer_index") THEN "false"
    ELSE IF typeof(Get(message, "peer_index")) # "string" THEN "false"
    ELSE IF ~HasKey(message, "data") THEN "false"
    ELSE IF Get(message, "type").v = PEER_CONNECT
         THEN IF typeof(Get(message, "data")) # "object" THEN "false"
              ELSE IF Get(message, "data").t = "null" THEN "throw"
              ELSE IF ~HasKey(Get(message, "data"), "name") THEN "false"
              ELSE "true"
    ELSE "true"

\* a == b for two names: strings by value; two objects only when they are the
\* same reference, which the names of two peers (parsed from two packets) never
\* are; an object against a string by its string conversion
LooseEquals(a, b) ==
    CASE a.t = "string" /\ b.t = "string" -> a.v = b.v
      [] a.t = "object" /\ b.t = "object" -> FALSE
      [] a.t = "string" /\ b.t = "object" -> a.v = ToStringJS(b)
      [] a.t = "object" /\ b.t = "string" -> ToStringJS(a) = b.v

\* lobby.peers.values().some(peer => peer.id != from.id && peer.name == player_name)
NameTaken(P, members, fromId, player_name) ==
    \E i \in 1..Len(members) :
        members[i] # fromId /\ LooseEquals(P[members[i]].name, player_name)

\* The suffix counted from 0.
Suffixed_FromZero(name, iterator) ==
    Str(ToStringJS(name) \o " (" \o ToString(iterator - 1) \o ")")

\* `${message.data.name} (${iterator})`
Suffixed(name, iterator) ==
    Str(ToStringJS(name) \o " (" \o ToString(iterator) \o ")")

RECURSIVE ResolveName(_, _, _, _, _, _)
\* the while loop of setPlayerName
ResolveName(P, members, fromId, name, player_name, iterator) ==
    IF NameTaken(P, members, fromId, player_name)
    THEN ResolveName(P, members, fromId, name, Suffixed(name, iterator), iterator + 1)
    ELSE player_name

\* setPlayerName taking the submitted name as it is.
setPlayerName_Unresolved(P, members, fromId, message) ==
    [P EXCEPT ![fromId].name = Get(Get(message, "data"), "name")]

\* setPlayerName(message, lobby, from): peers afterwards
setPlayerName(P, members, fromId, message) ==
    LET name == Get(Get(message, "data"), "name")
    IN  [P EXCEPT ![fromId].name = ResolveName(P, members, fromId, name, name, 1)]

\* What the announcer's introduction to an existing member carries.
IntroductionData(message) == Get(message, "data")

RECURSIVE Introduce(_, _, _, _, _), Introduce_NewcomerOnly(_, _, _, _, _)
\* The forEach without the message to the existing member.
Introduce_NewcomerOnly(out, members, P, fromId, message) ==
    IF members = <<>> THEN out
    ELSE LET destId == Head(members)
             toFrom == sendPeerMessage(out, fromId, Num(PEER_CONNECT), destId,
                                       Obj([name |-> P[destId].name,
                                            is_host |-> Bool(P[destId].isHost),
                                            preexisting |-> Bool(TRUE)]))
         IN  Introduce_NewcomerOnly(IF destId # fromId THEN toFrom ELSE out,
                                    Tail(members), P, fromId, message)

\* lobby.peers.forEach of handlePeerConnection
Introduce(out, members, P, fromId, message) ==
    IF members = <<>> THEN out
    ELSE LET destId == Head(members)
             dest == P[destId]
             toFrom == sendPeerMessage(out, fromId, Num(PEER_CONNECT), destId,
                                       Obj([name |-> dest.name,
                                            is_host |-> Bool(dest.isHost),
                                            preexisting |-> Bool(TRUE)]))
             toDest == sendPeerMessage(toFrom, destId, Num(PEER_CONNECT), fromId,
                                       IntroductionData(message))
         IN  Introduce(IF destId # fromId THEN toDest ELSE out,
                       Tail(members), P, fromId, message)

\* handlePeerConnection(fromId, message): lobby.peers of an undefined lobby throws
handlePeerConnection(P, L, fromId, message) ==
    IF P[fromId].lobbyId \notin DOMAIN L
    THEN [peers |-> P, sent |-> <<>>, closed |-> <<>>, threw |-> TRUE]
    ELSE LET members == L[P[fromId].lobbyId]
             P1 == setPlayerName(P, members, fromId, message)
         IN  [peers |-> P1, sent |-> Introduce(<<>>, members, P1, fromId, message),
              closed |-> <<>>, threw |-> FALSE]

\* The destination check without the comparison of the lobbies.
MayRelay_AnyRegistered(P, fromId, destId) == destId \in DOMAIN P

\* The condition under which handlePeerMessage forwards a message to dest.
MayRelay(P, fromId, destId) ==
    destId \in DOMAIN P /\ P[destId].lobbyId = P[fromId].lobbyId

\* The forwarding branch of handlePeerMessage.
relay(P, fromId, message) ==
    LET destId == Get(message, "peer_index").v
    IN  IF ~MayRelay(P, fromId, destId)
        THEN [peers |-> P, sent |-> <<>>,
              closed |-> <<[id |-> fromId, code |-> UNAUTHORIZED]>>, threw |-> FALSE]
        ELSE [peers |-> P,
              sent |-> sendPeerMessage(<<>>, destId, Get(message, "type"), fromId,
                                       Get(message, "data")),
              closed |-> <<>>, threw |-> FALSE]

\* handlePeerMessage(fromId, packet): [peers, sent, closed, threw]
handlePeerMessage(P, L, fromId, packet) ==
    IF ParseThrows(packet)
    THEN [peers |-> P, sent |-> <<>>, closed |-> <<>>, threw |-> TRUE]
    ELSE LET message == JSONparse(packet)
             valid == validateMessage(message)
         IN  IF valid = "throw"
             THEN [peers |-> P, sent |-> <<>>, closed |-> <<>>, threw |-> TRUE]
             ELSE IF valid = "false"
             THEN [peers |-> P, sent |-> <<>>,
                   closed |-> <<[id |-> fromId, code |-> INVALID_PAYLOAD]>>,
                   threw |-> FALSE]
             ELSE IF Get(message, "type").v = PEER_CONNECT
             THEN handlePeerConnection(P, L, fromId, message)
             ELSE relay(P, fromId, message)

(***************************************************************************)
(* Inputs.  A connection is named by the id connectPeer draws for it (a    *)
(* fresh UUID: no id is drawn twice), also when it is turned away before   *)
(* connectPeer runs.                                                       *)
(***************************************************************************)
NumCodes == 2

IdOf(n) == "p" \o ToString(n)

\* The ids of the first `conns` connections.
Ids(conns) == {IdOf(n) : n \in 1..conns}

CodeLetters == <<"A", "b", "7", "Z", "q", "0">>

\* The codes createLobby's random draw is taken from.
CodePool == {<<"A", "A", "A", "A", "A", CodeLetters[i]>> : i \in 1..NumCodes}

\* The draws of one call of createLobby: a code, or a code and a second one
\* for the case that the first is taken.
DrawPool ==
    {<<c>> : c \in CodePool} \cup {<<c, d>> : c, d \in CodePool}

\* The loop of createLobby ends with the last draw and not before.
EndsLoop(L, draws) ==
    /\ draws[Len(draws)] \notin DOMAIN L
    /\ \A j \in 1..(Len(draws) - 1) : draws[j] \in DOMAIN L

\* req.url: no code, a well-formed code, a code of the wrong length, a code
\* with a character outside the alphabet
Urls ==
    {<<"/">>} \cup {<<"/">> \o c : c \in CodePool}
      \cup {<<"/", "A", "A">>, <<"/", "A", "A", "A", "A", "-", "A">>}

Packet(type, peer_index, data) ==
    RawObj([type |-> type, peer_index |-> peer_index, data |-> data])

NameInputs == {RawStr("X"), RawStr("Player"), RawObj(<<>>)}

RelayData == {RawStr("sdp"), RawNum("3.0"), RawNum("1e400"), RawObj([sdp |-> RawStr("v=0")])}

\* Packets that validateMessage turns away or that make the handler throw.
InvalidPackets ==
    { RawGarbage, RawNull, RawNum("1"), RawStr("hello"), RawArray,
      RawObj([peer_index |-> RawStr("p1"), data |-> RawStr("sdp")]),
      Packet(RawStr("3"), RawStr("p1"), RawStr("sdp")),
      Packet(RawNum("6"), RawStr("p1"), RawStr("sdp")),
      Packet(RawNum("1e400"), RawStr("p1"), RawStr("sdp")),
      RawObj([type |-> RawNum("3"), data |-> RawStr("sdp")]),
      Packet(RawNum("3"), RawNum("1"), RawStr("sdp")),
      RawObj([type |-> RawNum("3"), peer_index |-> RawStr("p1")]),
      Packet(RawNum("1"), RawStr(""), RawStr("X")),
      Packet(RawNum("1"), RawStr(""), RawNull),
      Packet(RawNum("1"), RawStr(""), RawArray),
      Packet(RawNum("1"), RawStr(""), RawObj([nick |-> RawStr("X")])) }

ConnectPackets == {Packet(RawNum("1"), RawStr(""), RawObj([name |-> n])) : n \in NameInputs}

\* The announcement of SpecIntro.
IntroPackets == {Packet(RawNum("1"), RawStr(""), RawObj([name |-> RawStr("X")]))}

\* Relay requests to the destinations `ids`: every payload as an OFFER, every
\* other type with one payload.
RelayPackets(ids) ==
    {Packet(RawNum("3"), RawStr(d), x) : d \in ids, x \in RelayData}
      \cup {Packet(RawNum(t), RawStr(d), RawStr("sdp")) :
                t \in {"0", "2", "3.0", "4", "5"}, d \in ids}

\* One announcement, one relay request per destination, one invalid packet.
LifecyclePackets(ids) ==
    {Packet(RawNum("1"), RawStr(""), RawObj([name |-> RawStr("X")]))}
      \cup {Packet(RawNum("3"), RawStr(d), RawStr("sdp")) : d \in ids}
      \cup {Packet(RawNum("6"), RawStr("p1"), RawStr("sdp"))}

\* One relay request and one packet that fails validation.
LobbyPackets ==
    {Packet(RawNum("3"), RawStr("p1"), RawStr("sdp")),
     Packet(RawNum("6"), RawStr("p1"), RawStr("sdp"))}

\* req.url without the malformed codes
JoinUrls == {<<"/">>} \cup {<<"/">> \o c : c \in CodePool}

(***************************************************************************)
(* The events.                                                             *)
(***************************************************************************)
Init ==
    /\ peers = <<>>
    /\ lobbies = <<>>
    /\ nextConn = 0
    /\ announced = <<>>
    /\ crashed = FALSE
    /\ ev = [op |-> "init"]
    /\ sent = <<>>
    /\ closed = <<>>
    /\ introduced = <<>>
    /\ announcedAt = <<>>

\* The ceiling letting one peer more in.
AtCeiling_OneMore(P, config) == Cardinality(DOMAIN P) > config.MAX_PEERS

\* peers.size >= Config.MAX_PEERS
AtCeiling(P, config) == Cardinality(DOMAIN P) >= config.MAX_PEERS

\* wss.on('connection')
Connection(url, draws, conns, config) ==
    /\ ~crashed
    /\ nextConn < conns
    /\ LET id == IdOf(nextConn + 1)
       IN  /\ IF AtCeiling(peers, config)
              THEN /\ draws = <<>>
                   /\ closed' = <<[id |-> id, code |-> TRY_AGAIN_LATER]>>
                   /\ sent' = <<>>
                   /\ UNCHANGED <<peers, lobbies>>
              ELSE /\ IF Len(url) > 1 THEN draws = <<>>
                      ELSE draws # <<>> /\ EndsLoop(lobbies, draws)
                   /\ LET j == joinLobby(connectPeer(peers, id), lobbies, id, url, draws, config)
                      IN  /\ peers' = j.peers
                          /\ lobbies' = j.lobbies
                          /\ closed' = j.closed
                          /\ sent' = IF j.ret # <<>> THEN setPeerId(j.peers, id) ELSE <<>>
           /\ ev' = [op |-> "connection", id |-> id, url |-> url]
    /\ nextConn' = nextConn + 1
    /\ UNCHANGED <<announced, crashed, introduced, announcedAt>>

\* The handler of ws.on('message'), for a connection whose close event has
\* not come yet.
Receive(id, packet) ==
    /\ ~crashed
    /\ id \in DOMAIN peers
    /\ LET h == handlePeerMessage(peers, lobbies, id, packet)
       IN  /\ peers' = h.peers
           /\ sent' = h.sent
           /\ closed' = h.closed
           /\ crashed' = h.threw
           /\ announced' = IF ~h.threw /\ h.closed = <<>> /\ ~ParseThrows(packet)
                              /\ Get(JSONparse(packet), "type") = Num(PEER_CONNECT)
                           THEN MapSet(announced, id,
                                       Get(Get(JSONparse(packet), "data"), "name"))
                           ELSE announced
    /\ ev' = [op |-> "message", id |-> id, packet |-> packet]
    /\ UNCHANGED <<lobbies, nextConn>>

\* ws.on('message')
Message(id, packet) ==
    /\ Receive(id, packet)
    /\ UNCHANGED <<introduced, announcedAt>>

RECURSIVE Counted(_, _)
\* The count of introductions with the PEER_CONNECT packets of `out` added.
Counted(counts, out) ==
    IF out = <<>> THEN counts
    ELSE LET pair == <<Head(out).to, Head(out).packet.m.peer_index.s>>
             seen == IF pair \in DOMAIN counts THEN counts[pair] ELSE 0
         IN  Counted(IF Head(out).packet.m.type = RawNum(ToString(PEER_CONNECT))
                     THEN MapSet(counts, pair, seen + 1) ELSE counts,
                     Tail(out))

\* ws.on('message') for the one PEER_CONNECT of a connection, with the history
\* of the introductions it makes.
Announcement(id, packet) ==
    /\ id \notin DOMAIN announced
    /\ Receive(id, packet)
    /\ introduced' = Counted(introduced, sent')
    /\ announcedAt' = IF id \in DOMAIN announced'
                      THEN MapSet(announcedAt, id, nextConn) ELSE announcedAt

\* ws.on('close')
Close(id) ==
    /\ ~crashed
    /\ id \in DOMAIN peers
    /\ LET d == disconnectPeer(peers, lobbies, id)
       IN  /\ peers' = d.peers
           /\ lobbies' = d.lobbies
           /\ sent' = d.sent
    /\ closed' = <<>>
    /\ announced' = MapDelete(announced, id)
    /\ ev' = [op |-> "close", id |-> id]
    /\ UNCHANGED <<nextConn, crashed, introduced, announcedAt>>

\* The events of a server configured with `config` that accepts `conns`
\* connections, requested with `urls`, whose clients send `packets`.
NextWith(urls, packets, conns, config) ==
    \/ \E url \in urls, draws \in DrawPool \cup {<<>>} : Connection(url, draws, conns, config)
    \/ \E id \in DOMAIN peers, packet \in packets : Message(id, packet)
    \/ \E id \in DOMAIN peers : Close(id)

\* Connections, closes and a few messages: the life of peers and lobbies.
Spec == Init /\ [][NextWith(Urls, LifecyclePackets(Ids(MaxConns)), MaxConns, Config)]_vars

\* Connections with every kind of url and closes, with few messages: the
\* lobbies and the registry.
SpecLobby == Init /\ [][NextWith(Urls, LobbyPackets, MaxConns, Config)]_vars

\* Relay requests of every type, destination and payload.
SpecRelay == Init /\ [][NextWith(JoinUrls, RelayPackets(Ids(MaxConnsRelay)), MaxConnsRelay, Config)]_vars

\* Name announcements.
SpecNames == Init /\ [][NextWith(JoinUrls, ConnectPackets, MaxConnsNames, NamesConfig)]_vars

\* N peers join and each announces itself once, in every order; nobody leaves.
NextIntro ==
    \/ \E url \in JoinUrls, draws \in DrawPool \cup {<<>>} :
           Connection(url, draws, MaxConnsIntro, NamesConfig)
    \/ \E id \in DOMAIN peers, packet \in IntroPackets : Announcement(id, packet)

SpecIntro == Init /\ [][NextIntro]_vars

\* Packets that fail validation.
SpecInvalid == Init /\ [][NextWith(JoinUrls, InvalidPackets, MaxConnsInvalid, Config)]_vars

TypeOK ==
    /\ DOMAIN peers \subseteq Ids(nextConn)
    /\ DOMAIN lobbies \subseteq CodePool
    /\ DOMAIN announced \subseteq DOMAIN peers
    /\ nextConn \in 0..MaxConns
    /\ crashed \in BOOLEAN
    /\ DOMAIN introduced \subseteq Ids(nextConn) \X Ids(nextConn)
    /\ DOMAIN announcedAt \subseteq DOMAIN announced

(***************************************************************************)
(* Vocabulary of the properties.                                           *)
(***************************************************************************)
Members(c) == {lobbies[c][i] : i \in 1..Len(lobbies[c])}

IsMember(id) == \E c \in DOMAIN lobbies : id \in Members(c)

\* A registered peer that is in no lobby's membership: its join was turned
\* away and its close event is still to come.
Rejected(id) == id \in DOMAIN peers /\ ~IsMember(id)

DefaultPeer == [name |-> Str("Player"), isHost |-> FALSE, lobbyId |-> <<>>]

\* The code a connection request asks for; <<>> when it asks for a new lobby.
Requested(url) == IF Len(url) > 1 THEN Tail(url) ELSE <<>>

\* C1: a registered peer's lobbyId is non-empty exactly when the peer is an
\* entry of lobbies[lobbyId].peers.
C1_LobbyRefIffMember ==
    \A id \in DOMAIN peers :
        (peers[id].lobbyId # <<>>)
            <=> (peers[id].lobbyId \in DOMAIN lobbies /\ id \in Members(peers[id].lobbyId))

\* C2: a connection that asks for an existing lobby already at MAX_LOBBY_SIZE
\* is closed with FORBIDDEN and changes nothing: not the lobbies, not the
\* joining peer's lobby reference, name or host flag; and no lobby ever holds
\* more than MAX_LOBBY_SIZE members.
C2_FullJoinMutatesNothing ==
    /\ [](\A c \in DOMAIN lobbies : Len(lobbies[c]) <= MAX_LOBBY_SIZE)
    /\ [][(/\ ev'.op = "connection"
           /\ Cardinality(DOMAIN peers) < MAX_PEERS
           /\ Requested(ev'.url) \in DOMAIN lobbies
           /\ Len(lobbies[Requested(ev'.url)]) >= MAX_LOBBY_SIZE)
          => (/\ closed' = <<[id |-> ev'.id, code |-> FORBIDDEN]>>
              /\ sent' = <<>>
              /\ lobbies' = lobbies
              /\ peers'[ev'.id] = DefaultPeer
              /\ \A p \in DOMAIN peers : peers'[p] = peers[p])]_vars

\* C3: a rejected connection affects nobody else: neither the step that
\* rejects it nor the step that handles its close event sends a message to
\* anyone or changes a lobby or another peer.
C3_RejectionAffectsNoOne ==
    [][((ev'.op = "connection" /\ closed' # <<>>)
          \/ (ev'.op = "close" /\ Rejected(ev'.id)))
       => (/\ sent' = <<>>
           /\ lobbies' = lobbies
           /\ \A p \in DOMAIN peers \ {ev'.id} :
                  p \in DOMAIN peers' /\ peers'[p] = peers[p])]_vars

(***************************************************************************)
(* Inbound packets as the properties name them, read off the JSON text.    *)
(***************************************************************************)
\* The text is a JSON object that carries `key`.
Carries(raw, key) == raw.r = "object" /\ key \in DOMAIN raw.m

\* The text is an object with a numeric type among `kinds`, a string
\* peer_index and a data field.
IsRequest(raw, kinds) ==
    /\ Carries(raw, "type") /\ Carries(raw, "peer_index") /\ Carries(raw, "data")
    /\ raw.m.type.r = "number"
    /\ ParseNumber(raw.m.type.lex) \in {Num(k) : k \in kinds}
    /\ raw.m.peer_index.r = "string"

\* A schema-valid OFFER, ANSWER or CANDIDATE.
IsSignal(raw) == IsRequest(raw, {OFFER, ANSWER, CANDIDATE})

\* A schema-valid message of any kind the server forwards.
IsRelayRequest(raw) == IsRequest(raw, MESSAGE_TYPE \ {PEER_CONNECT})

\* A schema-valid PEER_CONNECT: its data is an object that carries name.
IsAnnouncement(raw) == IsRequest(raw, {PEER_CONNECT}) /\ Carries(raw.m.data, "name")

\* The destination a request names, and whether it is registered with the
\* sender's lobby reference.
Destination(raw) == raw.m.peer_index.s

SameLobbyRef(fromId, destId) ==
    destId \in DOMAIN peers /\ peers[destId].lobbyId = peers[fromId].lobbyId

\* Both are members of one lobby.
InSameLobby(fromId, destId) ==
    \E c \in DOMAIN lobbies : fromId \in Members(c) /\ destId \in Members(c)

\* The JSON text holds a number that no double holds.
RECURSIVE Overflows(_)
Overflows(raw) ==
    CASE raw.r = "number" -> ParseNumber(raw.lex) = Infinity
      [] raw.r = "object" -> \E k \in DOMAIN raw.m : Overflows(raw.m[k])
      [] OTHER -> FALSE

\* The one packet a relay of `raw` from fromId delivers, with `data` as its data.
Relayed(raw, fromId, data) ==
    [to |-> Destination(raw),
     packet |-> RawObj([type |-> RawNum(ToString(ParseNumber(raw.m.type.lex).v)),
                        peer_index |-> RawStr(fromId),
                        data |-> data])]

\* C4 as stated: a valid OFFER, ANSWER or CANDIDATE from F to a registered D of
\* the same lobby delivers exactly one message, to D, of the same type, with
\* peer_index F and with data identical to the submitted data (read here as
\* the same JSON value, which the same text would be too); nothing else
\* changes.
C4_RelayIdentical ==
    [][(ev'.op = "message" /\ IsSignal(ev'.packet)
          /\ InSameLobby(ev'.id, Destination(ev'.packet)))
       => (/\ Len(sent') = 1
           /\ sent'[1] = Relayed(ev'.packet, ev'.id, sent'[1].packet.m.data)
           /\ JSONparse(sent'[1].packet.m.data) = JSONparse(ev'.packet.m.data)
           /\ closed' = <<>>
           /\ peers' = peers /\ lobbies' = lobbies /\ ~crashed')]_vars

\* C4 as amended: a valid OFFER, ANSWER or CANDIDATE from F to a registered D
\* with F's lobby reference (so to every D in F's lobby) delivers exactly one
\* message, to D, of the same type, with peer_index F and with the submitted
\* data parsed and written again: the same JSON value unless the data holds a
\* number beyond the range of a double (delivered as null); nothing else
\* changes.
C4_RelayReserialised ==
    [][(ev'.op = "message" /\ IsSignal(ev'.packet)
          /\ SameLobbyRef(ev'.id, Destination(ev'.packet)))
       => (/\ Len(sent') = 1
           /\ sent'[1] = Relayed(ev'.packet, ev'.id, sent'[1].packet.m.data)
           /\ sent'[1].packet.m.data = JSONstringify(JSONparse(ev'.packet.m.data))
           /\ (~Overflows(ev'.packet.m.data)
                 => JSONparse(sent'[1].packet.m.data) = JSONparse(ev'.packet.m.data))
           /\ closed' = <<>>
           /\ peers' = peers /\ lobbies' = lobbies /\ ~crashed')]_vars

\* A valid signal was relayed to another member of the sender's lobby, with
\* an object as data.
C4_Witness ==
    /\ ev.op = "message" /\ IsSignal(ev.packet)
    /\ InSameLobby(ev.id, Destination(ev.packet))
    /\ Len(sent) = 1 /\ sent[1].to # ev.id /\ sent[1].to = Destination(ev.packet)
    /\ sent[1].packet.m.data.r = "object"

\* C5: a relay request whose destination is not registered, or is registered
\* with another lobby reference than the sender's, closes the sender with
\* UNAUTHORIZED and delivers nothing; and every relayed message goes to a peer
\* with the sender's lobby reference.
C5_NoCrossLobbyRelay ==
    [][(ev'.op = "message" /\ IsRelayRequest(ev'.packet))
       => (/\ ~SameLobbyRef(ev'.id, Destination(ev'.packet))
                => (closed' = <<[id |-> ev'.id, code |-> UNAUTHORIZED]>> /\ sent' = <<>>)
           /\ \A i \in 1..Len(sent') :
                  /\ sent'[i].to \in DOMAIN peers
                  /\ peers[sent'[i].to].lobbyId = peers[ev'.id].lobbyId)]_vars

\* A relay request to a member of another lobby closed its sender.
C5_Witness ==
    /\ ev.op = "message" /\ IsRelayRequest(ev.packet)
    /\ Destination(ev.packet) \in DOMAIN peers
    /\ IsMember(ev.id) /\ IsMember(Destination(ev.packet))
    /\ peers[Destination(ev.packet)].lobbyId # peers[ev.id].lobbyId
    /\ closed = <<[id |-> ev.id, code |-> UNAUTHORIZED]>> /\ sent = <<>>

\* C6: no message a client submits makes the server deliver a PEER_DISCONNECT
\* or a SET_ID to another peer.
C6_NoClientOriginatedControl ==
    ev.op = "message"
        => \A i \in 1..Len(sent) :
               sent[i].to # ev.id
                   => ParseNumber(sent[i].packet.m.type.lex).v \notin {PEER_DISCONNECT, SET_ID}

\* The text fails validation, case by case as the claim lists them.
FailsValidation(raw) ==
    \/ raw.r # "object"
    \/ ~Carries(raw, "type")
    \/ raw.m.type.r # "number"
    \/ ParseNumber(raw.m.type.lex) \notin {Num(k) : k \in MESSAGE_TYPE}
    \/ ~Carries(raw, "peer_index")
    \/ raw.m.peer_index.r # "string"
    \/ ~Carries(raw, "data")
    \/ (ParseNumber(raw.m.type.lex) = Num(PEER_CONNECT) /\ ~Carries(raw.m.data, "name"))

\* C7: a payload that fails validation closes its connection with
\* INVALID_PAYLOAD, sends nothing, changes no peer and no lobby, and leaves
\* the server running.
C7_InvalidPayloadOnlyCloses ==
    [][(ev'.op = "message" /\ FailsValidation(ev'.packet))
       => (/\ closed' = <<[id |-> ev'.id, code |-> INVALID_PAYLOAD]>>
           /\ sent' = <<>>
           /\ peers' = peers /\ lobbies' = lobbies
           /\ ~crashed')]_vars

(***************************************************************************)
(* Names.                                                                  *)
(***************************************************************************)
\* The name an announcement submits, and the names of the other members of
\* the announcer's lobby.
SubmittedName(raw) == JSONparse(raw.m.data.m.name)

OtherMembers(id) == Members(peers[id].lobbyId) \ {id}

OtherNames(id) == {peers[m].name : m \in OtherMembers(id)}

\* X for n = 0, "X (n)" otherwise.
Numbered(X, n) ==
    IF n = 0 THEN X ELSE Str(ToStringJS(X) \o " (" \o ToString(n) \o ")")

\* X if no other name is X, otherwise "X (n)" for the smallest n >= 1 that no
\* other name takes.
FirstFree(X, others) ==
    IF X \notin others THEN X
    ELSE Numbered(X, CHOOSE n \in 1..(Cardinality(others) + 1) :
                        /\ Numbered(X, n) \notin others
                        /\ \A m \in 1..(n - 1) : Numbered(X, m) \in others)

\* The members other than id that have announced.
AnnouncedOthers(id) == OtherMembers(id) \cap DOMAIN announced

\* The other members that have announced all submitted X and hold X, "X (1)",
\* ..., one each.
ChainSoFar(id, X) ==
    /\ \A o \in AnnouncedOthers(id) : announced[o] = X
    /\ {peers[o].name : o \in AnnouncedOthers(id)}
           = {Numbered(X, i) : i \in 0..(Cardinality(AnnouncedOthers(id)) - 1)}

AllStrings(values) == \A v \in values : v.t = "string"

\* C8 as stated: the names of the members of one lobby are pairwise distinct,
\* whether or not they have announced a name.
C8_NamesDistinct ==
    \A c \in DOMAIN lobbies : \A a, b \in Members(c) :
        a # b => peers[a].name # peers[b].name

\* C8 as amended: the string names of the members of one lobby that have
\* announced a name are pairwise distinct.
C8_AnnouncedNamesDistinct ==
    \A c \in DOMAIN lobbies : \A a, b \in Members(c) \cap DOMAIN announced :
        (a # b /\ AllStrings({peers[a].name, peers[b].name}))
            => peers[a].name # peers[b].name

\* Two members of one lobby submitted the same name and hold different ones.
C8_Witness ==
    \E c \in DOMAIN lobbies : \E a, b \in Members(c) \cap DOMAIN announced :
        /\ a # b /\ announced[a] = announced[b]
        /\ AllStrings({peers[a].name, peers[b].name})
        /\ peers[a].name # peers[b].name

\* C9 as stated: when member F announces X, its stored name becomes X if no
\* other member has name X and otherwise "X (n)" for the smallest free n >= 1;
\* so the k-th of k successive announcements of X by distinct members yields
\* "X (k-1)" (X for the first).
C9_NameResolution ==
    [][(ev'.op = "message" /\ IsAnnouncement(ev'.packet) /\ IsMember(ev'.id))
       => LET F == ev'.id
              X == SubmittedName(ev'.packet)
          IN  /\ peers'[F].name = FirstFree(X, OtherNames(F))
              /\ (F \notin DOMAIN announced /\ ChainSoFar(F, X))
                    => peers'[F].name = Numbered(X, Cardinality(AnnouncedOthers(F)))]_vars

\* C9 as amended: when member F announces a string X and the other members'
\* names are strings, its stored name becomes X if no other member has name X
\* and otherwise "X (n)" for the smallest free n >= 1; so the k-th of k
\* successive announcements of X by distinct members yields "X (k-1)", provided
\* no member that has yet to announce holds one of these names (as it does
\* when X is the default name Player).
C9_StringNameResolution ==
    [][(ev'.op = "message" /\ IsAnnouncement(ev'.packet) /\ IsMember(ev'.id)
          /\ AllStrings({SubmittedName(ev'.packet)} \cup OtherNames(ev'.id)))
       => LET F == ev'.id
              X == SubmittedName(ev'.packet)
              k == Cardinality(AnnouncedOthers(F))
          IN  /\ peers'[F].name = FirstFree(X, OtherNames(F))
              /\ (/\ F \notin DOMAIN announced /\ ChainSoFar(F, X)
                  /\ \A m \in OtherMembers(F) \ DOMAIN announced :
                         peers[m].name \notin {Numbered(X, i) : i \in 0..k})
                    => peers'[F].name = Numbered(X, k)]_vars

\* The third member to announce X in a lobby was named "X (2)".
C9_Witness ==
    /\ ev.op = "message" /\ IsAnnouncement(ev.packet) /\ IsMember(ev.id)
    /\ SubmittedName(ev.packet) = Str("X")
    /\ peers[ev.id].name = Str("X (2)")
    /\ {announced[m] : m \in AnnouncedOthers(ev.id)} = {Str("X")}

\* C10: the PEER_CONNECT that tells an existing member of the announcer
\* carries the announcer's name as resolved and stored in the registry.
C10_IntroCarriesStoredName ==
    (ev.op = "message" /\ IsAnnouncement(ev.packet) /\ IsMember(ev.id))
        => \A i \in 1..Len(sent) :
               (sent[i].to # ev.id /\ sent[i].packet.m.peer_index = RawStr(ev.id))
                   => sent[i].packet.m.data.m.name = JSONstringify(peers[ev.id].name)

(***************************************************************************)
(* Introductions over a run (SpecIntro).                                   *)
(***************************************************************************)
\* The number of the connection that was given `id`.
Idx(id) == CHOOSE n \in 1..nextConn : IdOf(n) = id

\* The PEER_CONNECT packets with peer_index S handed to R so far.
Introductions(R, S) ==
    IF <<R, S>> \in DOMAIN introduced THEN introduced[<<R, S>>] ELSE 0

RECURSIVE SumOf(_)
\* The sum of the counts of a set of pairs.
SumOf(pairs) ==
    IF pairs = {} THEN 0
    ELSE LET x == CHOOSE y \in pairs : TRUE
         IN  Introductions(x[1], x[2]) + SumOf(pairs \ {x})

\* All PEER_CONNECT packets handed to the members of lobby c so far.
TotalIntroductions(c) ==
    SumOf({x \in DOMAIN introduced : x[1] \in Members(c)})

AllAnnounced(c) == Members(c) \subseteq DOMAIN announced

\* 1 if F announced when d had already joined, 0 otherwise.
AnnouncedBeside(F, d) ==
    IF F \in DOMAIN announcedAt /\ announcedAt[F] >= Idx(d) THEN 1 ELSE 0

\* Every member of c announced before the next connection arrived.
Sequential(c) ==
    \A m \in Members(c) : m \in DOMAIN announcedAt /\ announcedAt[m] = Idx(m)

\* C11 as stated: once the N members of a lobby have each announced once, in
\* whatever order the joins and the announcements came, the server has sent
\* N*(N-1) PEER_CONNECT introductions, one to every member R about every other
\* member S.
C11_EachPairOnce ==
    \A c \in DOMAIN lobbies :
        AllAnnounced(c)
            => /\ TotalIntroductions(c) = Len(lobbies[c]) * (Len(lobbies[c]) - 1)
               /\ \A R, S \in Members(c) : R # S => Introductions(R, S) = 1

\* C11 as amended: a member R has been sent one PEER_CONNECT with peer_index S
\* for each of R and S that announced when the other had already joined; so
\* once the N members have each announced, every ordered pair has been
\* introduced once or twice, and exactly once, N*(N-1) introductions in
\* total, when every member announced before the next peer joined.
C11_OncePerAnnouncementBeside ==
    \A c \in DOMAIN lobbies :
        /\ \A R, S \in Members(c) :
               R # S => Introductions(R, S) = AnnouncedBeside(R, S) + AnnouncedBeside(S, R)
        /\ AllAnnounced(c)
              => \A R, S \in Members(c) : R # S => Introductions(R, S) \in {1, 2}
        /\ (AllAnnounced(c) /\ Sequential(c))
              => /\ TotalIntroductions(c) = Len(lobbies[c]) * (Len(lobbies[c]) - 1)
                 /\ \A R, S \in Members(c) : R # S => Introductions(R, S) = 1

\* Three peers joined one lobby, each announcing before the next joined, and
\* six introductions were sent.
C11_Witness ==
    \E c \in DOMAIN lobbies :
        /\ Len(lobbies[c]) = 3 /\ AllAnnounced(c) /\ Sequential(c)
        /\ TotalIntroductions(c) = 6

(***************************************************************************)
(* The registry and the lobbies (SpecLobby).                               *)
(***************************************************************************)
Hosts(c) == {m \in Members(c) : peers[m].isHost}

\* C12: at most one member of a lobby has the host flag; a connection comes
\* out of joinLobby with the flag exactly when it asked for no code and its
\* lobby was created for it; and afterwards neither the flag nor the lobby
\* reference of a registered peer changes, so no other member becomes host
\* when the host leaves.
C12_HostIsCreator ==
    /\ [](\A c \in DOMAIN lobbies : Cardinality(Hosts(c)) <= 1)
    /\ [][/\ (ev'.op = "connection" /\ ev'.id \in DOMAIN peers')
               => (peers'[ev'.id].isHost
                     <=> (/\ Requested(ev'.url) = <<>>
                          /\ peers'[ev'.id].lobbyId \notin DOMAIN lobbies
                          /\ peers'[ev'.id].lobbyId \in DOMAIN lobbies'
                          /\ lobbies'[peers'[ev'.id].lobbyId] = <<ev'.id>>))
           /\ \A p \in DOMAIN peers \cap DOMAIN peers' :
                  /\ peers'[p].isHost = peers[p].isHost
                  /\ peers'[p].lobbyId = peers[p].lobbyId]_vars

\* The host of a lobby has left and the member that remains is no host.
C12_Witness ==
    /\ ev.op = "close"
    /\ \E c \in DOMAIN lobbies : Members(c) # {} /\ Hosts(c) = {}

\* The PEER_DISCONNECT that names `id`, as it is handed to `to`.
Departure(to, id) ==
    [to |-> to,
     packet |-> RawObj([type |-> RawNum(ToString(PEER_DISCONNECT)),
                        peer_index |-> RawStr(id)])]

\* The packets of `out` handed to `to`.
SentTo(out, to) == SelectSeq(out, LAMBDA x : x.to = to)

\* C13: the close event of a lobby member removes it from the registry and
\* from its lobby (the lobby goes when it was the last member), hands every
\* remaining member of that lobby exactly one PEER_DISCONNECT naming it and
\* hands nobody else anything; and disconnectPeer for an identifier that is
\* no longer registered changes nothing and sends nothing.
C13_MemberLeaves ==
    /\ [][(ev'.op = "close" /\ IsMember(ev'.id))
            => LET id == ev'.id
                   c == peers[id].lobbyId
                   rest == Members(c) \ {id}
               IN  /\ id \in Members(c)
                   /\ id \notin DOMAIN peers'
                   /\ \A p \in DOMAIN peers \ {id} : p \in DOMAIN peers' /\ peers'[p] = peers[p]
                   /\ IF rest = {} THEN c \notin DOMAIN lobbies'
                      ELSE c \in DOMAIN lobbies' /\ lobbies'[c] = Remove(lobbies[c], id)
                   /\ \A d \in DOMAIN lobbies \ {c} :
                          d \in DOMAIN lobbies' /\ lobbies'[d] = lobbies[d]
                   /\ \A m \in rest : SentTo(sent', m) = <<Departure(m, id)>>
                   /\ \A i \in 1..Len(sent') : sent'[i].to \in rest
                   /\ closed' = <<>>]_vars
    /\ [](\A id \in Ids(nextConn) \ DOMAIN peers :
              disconnectPeer(peers, lobbies, id)
                  = [peers |-> peers, lobbies |-> lobbies, sent |-> <<>>])

\* The first connection was a member and has left: the member that remains
\* was told, another registered peer was not.
C13_Witness ==
    /\ ev.op = "close" /\ ev.id = IdOf(1)
    /\ Len(sent) = 1 /\ IsMember(sent[1].to)
    /\ DOMAIN peers \ {sent[1].to} # {}

\* C14: every lobby of the map has a member; a lobby appears only in the step
\* of the connection that becomes its first member, and the close event that
\* takes the last member of a lobby takes the lobby with it.
C14_LobbiesNonEmpty ==
    /\ [](\A c \in DOMAIN lobbies : Len(lobbies[c]) >= 1)
    /\ [][/\ \A c \in DOMAIN lobbies' \ DOMAIN lobbies :
                  ev'.op = "connection" /\ lobbies'[c] = <<ev'.id>>
           /\ (ev'.op = "close" /\ IsMember(ev'.id)
                 /\ Members(peers[ev'.id].lobbyId) = {ev'.id})
                => peers[ev'.id].lobbyId \notin DOMAIN lobbies']_vars

\* A lobby has gone with its last member: a peer that was turned away from it
\* when it was full still refers to it.
C14_Witness ==
    /\ ev.op = "close"
    /\ \E p \in DOMAIN peers :
           peers[p].lobbyId # <<>> /\ peers[p].lobbyId \notin DOMAIN lobbies

\* C15: a connection (admitted below the peer ceiling) that requests a
\* well-formed code under which no lobby exists, as after the last member of
\* the lobby of that code has left, is closed with INVALID_PAYLOAD, joins
\* nothing and changes no lobby; and a new lobby never takes the code of a
\* lobby that exists, whose members stay as they are.
C15_DeadCodeIsInvalid ==
    [][ev'.op = "connection"
         => /\ (/\ Cardinality(DOMAIN peers) < MAX_PEERS
                 /\ Requested(ev'.url) \in CodePool \ DOMAIN lobbies)
                => (/\ closed' = <<[id |-> ev'.id, code |-> INVALID_PAYLOAD]>>
                    /\ sent' = <<>>
                    /\ lobbies' = lobbies
                    /\ peers'[ev'.id].lobbyId = <<>>)
            /\ \A c \in DOMAIN lobbies :
                   c \in DOMAIN lobbies' /\ Members(c) \subseteq {lobbies'[c][i] : i \in 1..Len(lobbies'[c])}]_vars

\* A connection asked for the code of a lobby that is gone (a peer turned
\* away from it when it was full still refers to it) and was closed.
C15_Witness ==
    /\ ev.op = "connection"
    /\ closed = <<[id |-> ev.id, code |-> INVALID_PAYLOAD]>>
    /\ Requested(ev.url) \in CodePool \ DOMAIN lobbies
    /\ \E p \in DOMAIN peers \ {ev.id} : peers[p].lobbyId = Requested(ev.url)

\* The requested code is of the wrong length, holds a character outside the
\* alphabet, or is the code of no lobby.
InvalidCode(code) ==
    \/ Len(code) # LOBBY_ID_LENGTH
    \/ \E i \in 1..Len(code) : code[i] \notin LOBBY_ID_CHARS
    \/ code \notin DOMAIN lobbies

\* C16: a connection (admitted below the peer ceiling) that supplies such a
\* code is closed with INVALID_PAYLOAD; no lobby appears, goes or changes its
\* members, the peers registered before keep their state and the new peer
\* keeps the lobby reference, name and host flag it was registered with.
C16_InvalidCodeMutatesNothing ==
    [][(/\ ev'.op = "connection"
        /\ Cardinality(DOMAIN peers) < MAX_PEERS
        /\ Requested(ev'.url) # <<>>
        /\ InvalidCode(Requested(ev'.url)))
       => (/\ closed' = <<[id |-> ev'.id, code |-> INVALID_PAYLOAD]>>
           /\ sent' = <<>>
           /\ lobbies' = lobbies
           /\ peers'[ev'.id] = DefaultPeer
           /\ \A p \in DOMAIN peers : p \in DOMAIN peers' /\ peers'[p] = peers[p])]_vars

\* A connection with a malformed code was closed while a lobby existed.
C16_Witness ==
    /\ ev.op = "connection"
    /\ Requested(ev.url) # <<>> /\ Requested(ev.url) \notin CodePool
    /\ closed = <<[id |-> ev.id, code |-> INVALID_PAYLOAD]>>
    /\ DOMAIN lobbies # {}

\* C17: the registry never holds more than MAX_PEERS peers; a connection that
\* arrives when it holds MAX_PEERS, rejected peers whose close event is still
\* to come included, is closed with TRY_AGAIN_LATER, is not registered,
\* creates and joins no lobby, and nothing is sent.
C17_PeerCeiling ==
    /\ [](Cardinality(DOMAIN peers) <= MAX_PEERS)
    /\ [][(ev'.op = "connection" /\ Cardinality(DOMAIN peers) >= MAX_PEERS)
            => (/\ closed' = <<[id |-> ev'.id, code |-> TRY_AGAIN_LATER]>>
                /\ sent' = <<>>
                /\ peers' = peers
                /\ lobbies' = lobbies)]_vars

\* A connection was turned away at the ceiling while a rejected peer was still
\* registered.
C17_Witness ==
    /\ ev.op = "connection"
    /\ closed = <<[id |-> ev.id, code |-> TRY_AGAIN_LATER]>>
    /\ ev.id \notin DOMAIN peers
    /\ \E p \in DOMAIN peers : Rejected(p)

(***************************************************************************)
(* What reaches whom.                                                      *)
(***************************************************************************)
\* The SET_ID of connection `id`, a member of the lobby with code c.
Welcome(id, c) ==
    [to |-> id,
     packet |-> RawObj([type |-> RawNum(ToString(SET_ID)),
                        peer_index |-> RawStr(id),
                        data |-> RawObj([lobby_id |-> RawStr(Join(c))])])]

\* The type of a packet the server sends.
TypeOf(x) == ParseNumber(x.packet.m.type.lex).v

\* C18: the step that handles a connection hands it exactly its SET_ID (own
\* identifier, code of the lobby it is now a member of) when the join
\* succeeded and nothing when it failed; no later step hands a connection
\* whose join succeeded another SET_ID, so the one of the connection step is
\* the only one and the first message.  (What a later step hands to the
\* socket of a connection whose join failed, which the server has closed, is
\* not held against the claim here.)
C18_SetIdOnceAndFirst ==
    /\ ev.op = "connection"
          => sent = IF IsMember(ev.id)
                    THEN <<Welcome(ev.id, peers[ev.id].lobbyId)>> ELSE <<>>
    /\ ev.op \in {"message", "close"}
          => \A i \in 1..Len(sent) : IsMember(sent[i].to) => TypeOf(sent[i]) # SET_ID

\* C19: whatever the handling of a message from F hands to a lobby member D
\* is handed over only when F is a member of D's lobby, and the peer it names
\* is one too; so a registered peer that is in no lobby's membership does not
\* make the server deliver anything to a member.  (What is handed to the
\* socket of a peer that is in no membership, which the server has closed, is
\* not held against the claim here.)
C19_DeliveriesWithinMembership ==
    ev.op = "message"
        => \A i \in 1..Len(sent) :
               IsMember(sent[i].to)
                   => /\ InSameLobby(ev.id, sent[i].to)
                      /\ InSameLobby(sent[i].packet.m.peer_index.s, sent[i].to)

\* C20: the handling of a schema-valid message from a registered peer does
\* not end in an exception, whether or not the peer is a member of a lobby.
C20_ValidMessageNeverThrows ==
    (ev.op = "message" /\ (IsAnnouncement(ev.packet) \/ IsRelayRequest(ev.packet)))
        => ~crashed

====
